---- MODULE Spec2Model ----
(***************************************************************************)
(* HW1/main.py: a batch runner that answers each question of public.txt    *)
(* with a three-agent pipeline (question extraction, keyword extraction,   *)
(* grounded QA) and an optional web search wrapped in a retry loop.        *)
(*                                                                         *)
(* One process runs main(); the only concurrency is the set of _fetch      *)
(* tasks that get_htmls gathers inside one search() call.  The model-      *)
(* backend, the search backend and the HTTP servers are the environment:   *)
(* their answers are chosen nondeterministically from small sets.          *)
(* Time is counted in ticks of 1/JitterSteps second.                       *)
(***************************************************************************)
EXTENDS Integers, Sequences, FiniteSets, TLC

\* ------------------------------------------------------------ bounds
MaxUrls == 2        \* URLs the search backend returns (the code asks for 6)
MaxExecs == 2       \* executions of the program over the same directory
JitterSteps == 2    \* resolution of random.random(): j / JitterSteps, j < JitterSteps

\* ------------------------------------------------- program constants
MaxAttempts == 3        \* for attempt in range(3)
BackoffBase == 20       \* 20 ** attempt
LengthThreshold == 15   \* len(question) > 15
QueryCap == 100         \* quoted[:100]
ContextCap == 5000      \* "\n\n".join(clean)[:5000]

Triggers == <<"what is", "who", "which">>
NoSearchContext == "No search needed, answer based on common sense."
FallbackContext == "Multiple search failures, answer based on common sense."

None == "<None>"        \* Python's None (a fetch without content)
NoFile == "<absent>"    \* out.exists() is False

\* ------------------------------------------------------ str helpers
Min(S) == CHOOSE x \in S : \A y \in S : x <= y
Max(S) == CHOOSE x \in S : \A y \in S : x >= y

Char(s, i) == SubSeq(s, i, i)

IsSpace(c) == c \in {" ", "\n", "\t", "\r"}

\* s[:n]
Prefix(s, n) == SubSeq(s, 1, IF Len(s) < n THEN Len(s) ELSE n)

\* str.strip()
Strip(s) ==
    LET keep == {i \in 1..Len(s) : ~IsSpace(Char(s, i))}
    IN  IF keep = {} THEN "" ELSE SubSeq(s, Min(keep), Max(keep))

\* mutant: the line is not split at the comma
BeforeCommaMissing(s) == s

\* s.split(',')[0]
BeforeComma(s) ==
    LET commas == {i \in 1..Len(s) : Char(s, i) = ","}
    IN  IF commas = {} THEN s ELSE SubSeq(s, 1, Min(commas) - 1)

\* kw in s
Contains(s, kw) ==
    \E i \in 1..(Len(s) - Len(kw) + 1) : SubSeq(s, i, i + Len(kw) - 1) = kw

\* answer.replace('\n', ' ')
RECURSIVE ReplaceNewlines(_)
ReplaceNewlines(s) ==
    IF Len(s) = 0 THEN ""
    ELSE IF Len(s) = 1 THEN (IF s = "\n" THEN " " ELSE s)
    ELSE LET h == Len(s) \div 2
         IN  ReplaceNewlines(SubSeq(s, 1, h)) \o ReplaceNewlines(SubSeq(s, h + 1, Len(s)))

\* ''.join(t.split())
RECURSIVE RemoveWhitespace(_)
RemoveWhitespace(s) ==
    IF Len(s) = 0 THEN ""
    ELSE IF Len(s) = 1 THEN (IF IsSpace(s) THEN "" ELSE s)
    ELSE LET h == Len(s) \div 2
         IN  RemoveWhitespace(SubSeq(s, 1, h)) \o RemoveWhitespace(SubSeq(s, h + 1, Len(s)))

\* sep.join(parts)
RECURSIVE Join(_, _)
Join(sep, parts) ==
    IF Len(parts) = 0 THEN ""
    ELSE IF Len(parts) = 1 THEN parts[1]
    ELSE parts[1] \o sep \o Join(sep, Tail(parts))

RECURSIVE Pow(_, _)
Pow(b, e) == IF e = 0 THEN 1 ELSE b * Pow(b, e - 1)

RECURSIVE Repeat(_, _)
Repeat(s, n) ==
    IF n = 0 THEN ""
    ELSE IF n = 1 THEN s
    ELSE LET h == Repeat(s, n \div 2)
         IN  IF n % 2 = 0 THEN h \o h ELSE h \o h \o s

\* ------------------------------------------------------ environment
\* public.txt as f.readlines() returns it
InputFiles ==
    { <<"What is the capital of France?,extra\n", " hi \n">>,
      <<"who,1,2\n">> }

\* what the model backend may answer (create_chat_completion)
ExtractedSet == {"who?", "Who?", "Capital of Peru", "Capital of Peru?"}
KeywordSet == {"Peru", "capital Peru"}
AnswerSet == {"Lima.", "Lima\nis the capital."}

\* What a URL may serve.  body is r.text, text is what BeautifulSoup's
\* get_text(separator=' ', strip=True) makes of it, encoding is what
\* charset_normalizer's detect reports for text.encode().
LongText == Repeat("tower 101 ", 400) \o "end"
Pages ==
    [ short |-> [body |-> "<p>Lima is the capital of Peru</p>",
                 text |-> "Lima is the capital of Peru",
                 encoding |-> "utf-8"],
      long  |-> [body |-> "<p>" \o LongText \o "</p>",
                 text |-> LongText,
                 encoding |-> "utf-8"],
      latin |-> [body |-> "<p>Sao Paulo</p>",
                 text |-> "Sao Paulo",
                 encoding |-> "cp1252"],
      blank |-> [body |-> "", text |-> "", encoding |-> "utf-8"] ]
PageIds == DOMAIN Pages

Agents == {"question_extraction_agent", "keyword_extraction_agent", "qa_agent"}

Stages ==
    {"IDLE", "START", "EXTRACT_QUESTION", "EXTRACT_KEYWORDS", "DECIDE_SEARCH",
     "SEARCH_WITH_RETRY", "SKIP_SEARCH", "GENERATE_ANSWER", "DONE", "ABORTED"}

\* ------------------------------------------------------------- state
VARIABLES
    lines,      \* the input file
    files,      \* OUTPUT_DIR: index -> content of "<index>.txt", or NoFile
    exec,       \* which execution of the program this is
    mainPc,     \* main(): "loop" | "await" | "finished" | "crashed"
    idx,        \* enumerate(questions, 1)
    stage,      \* pipeline(): the stage in progress
    inflight,   \* agents inside LLMAgent.inference
    question, extracted, keywords, context, prompt, answer,   \* pipeline locals
    attempt,    \* the retry loop's variable
    spc,        \* the retry loop: "idle" | "try" | "call" | "fetch" | "sleep" | "exit"
    nSearch,    \* calls of search() in this pipeline run
    sleeps,     \* the asyncio.sleep(wait) of this run, in ticks
    outcomes,   \* history: how each search() call of this run ended
    gathered,   \* history: URLs, and URLs with content, of the call that returned
    query,      \* what search() handed to the search backend
    urls,       \* number of URLs the backend returned
    fpc,        \* _fetch task of URL u: "head" | "get" | "done"
    fres,       \* its return value: None or the page served
    fev,        \* what the network did last for URL u
    trace,      \* history: stages entered by this pipeline run
    agentCalls, \* history: inference calls of this pipeline run
    agentFor,   \* history: indices with an agent call in this execution
    searchFor,  \* history: indices with a search call in this execution
    files0,     \* history: OUTPUT_DIR when this execution started
    returned,   \* history: index -> the pipeline runs that returned, all executions
    failedAt    \* history: the stage whose agent call raised in this execution

mainVars == <<lines, files, exec, mainPc, idx>>
localVars == <<question, extracted, keywords, context, prompt, answer>>
retryVars == <<attempt, spc, nSearch, sleeps, outcomes, gathered>>
fetchVars == <<query, urls, fpc, fres, fev>>
histVars == <<agentFor, searchFor, files0, returned, failedAt>>
vars == <<mainVars, stage, inflight, localVars, retryVars, fetchVars,
          trace, agentCalls, histVars>>

NumQuestions == Len(lines)

\* questions = [line.strip().split(',')[0] for line in f.readlines()]
questions == [i \in 1..NumQuestions |-> BeforeComma(Strip(lines[i]))]

NoFetch == [u \in {} |-> None]
NotGathered == [urls |-> 0, pages |-> 0, texts |-> 0, kept |-> 0]

Init ==
    /\ lines \in InputFiles
    /\ files = [i \in 1..Len(lines) |-> NoFile]
    /\ exec = 1
    /\ mainPc = "loop"
    /\ idx = 1
    /\ stage = "IDLE"
    /\ inflight = {}
    /\ question = "" /\ extracted = "" /\ keywords = ""
    /\ context = "" /\ prompt = "" /\ answer = ""
    /\ attempt = 0 /\ spc = "idle" /\ nSearch = 0 /\ sleeps = <<>> /\ outcomes = <<>>
    /\ gathered = NotGathered
    /\ query = "" /\ urls = 0
    /\ fpc = NoFetch /\ fres = NoFetch /\ fev = NoFetch
    /\ trace = <<>> /\ agentCalls = <<>>
    /\ agentFor = {} /\ searchFor = {}
    /\ files0 = files
    /\ returned = [i \in 1..Len(lines) |-> <<>>]
    /\ failedAt = "none"

\* the frame of pipeline() is gone: its locals and tasks with it
ResetRun ==
    /\ stage' = "IDLE"
    /\ inflight' = {}
    /\ question' = "" /\ extracted' = "" /\ keywords' = ""
    /\ context' = "" /\ prompt' = "" /\ answer' = ""
    /\ attempt' = 0 /\ spc' = "idle" /\ nSearch' = 0 /\ sleeps' = <<>>
    /\ outcomes' = <<>> /\ gathered' = NotGathered
    /\ query' = "" /\ urls' = 0
    /\ fpc' = NoFetch /\ fres' = NoFetch /\ fev' = NoFetch
    /\ trace' = <<>> /\ agentCalls' = <<>>

runVars == <<stage, inflight, localVars, retryVars, fetchVars, trace, agentCalls>>

\* ------------------------------------------------------------ main()
\* mutant: the continue is missing, an answered question is run again
LoopSkipReprocess ==
    /\ mainPc = "loop" /\ idx <= NumQuestions
    /\ files[idx] # NoFile
    /\ mainPc' = "await"
    /\ stage' = "START"
    /\ trace' = <<"START">>
    /\ question' = questions[idx]
    /\ UNCHANGED <<lines, files, exec, idx, inflight, extracted, keywords, context,
                   prompt, answer, retryVars, fetchVars, agentCalls, histVars>>

\* if out.exists(): continue
LoopSkip ==
    /\ mainPc = "loop" /\ idx <= NumQuestions
    /\ files[idx] # NoFile
    /\ idx' = idx + 1
    /\ UNCHANGED <<lines, files, exec, mainPc, runVars, histVars>>

\* mutant: the output file is opened for writing before the pipeline is awaited
CallPipelineOpensFirst ==
    /\ mainPc = "loop" /\ idx <= NumQuestions
    /\ files[idx] = NoFile
    /\ files' = [files EXCEPT ![idx] = ""]
    /\ mainPc' = "await"
    /\ stage' = "START"
    /\ trace' = <<"START">>
    /\ question' = questions[idx]
    /\ UNCHANGED <<lines, exec, idx, inflight, extracted, keywords, context,
                   prompt, answer, retryVars, fetchVars, agentCalls, histVars>>

\* answer = await pipeline(q): the coroutine starts
CallPipeline ==
    /\ mainPc = "loop" /\ idx <= NumQuestions
    /\ files[idx] = NoFile
    /\ mainPc' = "await"
    /\ stage' = "START"
    /\ trace' = <<"START">>
    /\ question' = questions[idx]
    /\ UNCHANGED <<lines, files, exec, idx, inflight, extracted, keywords, context,
                   prompt, answer, retryVars, fetchVars, agentCalls, histVars>>

\* mutant: the answer is kept for a later write, the next question starts first
WriteArtifactDeferred ==
    /\ mainPc = "await" /\ stage = "DONE"
    /\ idx' = idx + 1
    /\ mainPc' = "loop"
    /\ ResetRun
    /\ UNCHANGED <<lines, files, exec, histVars>>

\* mutant: the artifacts are numbered by the questions processed in this
\* execution, not by the input line
WriteArtifactRenumbered ==
    /\ mainPc = "await" /\ stage = "DONE"
    /\ LET skipped == Cardinality({i \in 1..(idx - 1) : files0[i] # NoFile})
       IN  files' = [files EXCEPT ![idx - skipped] = ReplaceNewlines(answer)]
    /\ idx' = idx + 1
    /\ mainPc' = "loop"
    /\ ResetRun
    /\ UNCHANGED <<lines, exec, histVars>>

\* with open(out, 'w') as f_out: f_out.write(answer.replace('\n', ' '))
WriteArtifact ==
    /\ mainPc = "await" /\ stage = "DONE"
    /\ files' = [files EXCEPT ![idx] = ReplaceNewlines(answer)]
    /\ idx' = idx + 1
    /\ mainPc' = "loop"
    /\ ResetRun
    /\ UNCHANGED <<lines, exec, histVars>>

\* the for loop is exhausted: main() returns
LoopExit ==
    /\ mainPc = "loop" /\ idx > NumQuestions
    /\ mainPc' = "finished"
    /\ UNCHANGED <<lines, files, exec, idx, runVars, histVars>>

\* the program is started again over the same input and output directory
Restart ==
    /\ mainPc \in {"finished", "crashed"}
    /\ exec < MaxExecs
    /\ exec' = exec + 1
    /\ mainPc' = "loop"
    /\ idx' = 1
    /\ ResetRun
    /\ agentFor' = {} /\ searchFor' = {} /\ failedAt' = "none"
    /\ files0' = files
    /\ UNCHANGED <<lines, files, returned>>

\* -------------------------------------------------------- the agents
\* LLMAgent.inference is entered by `agent` with `message`
Inference(agent, message, next) ==
    /\ inflight' = inflight \cup {agent}
    /\ agentCalls' = Append(agentCalls, [agent |-> agent, message |-> message])
    /\ agentFor' = agentFor \cup {idx}
    /\ stage' = next
    /\ trace' = Append(trace, next)

\* mutant: main() catches the error, logs it and goes on with the next question
BackendErrorSkipped(agent) ==
    /\ mainPc = "await" /\ agent \in inflight
    /\ failedAt' = stage
    /\ idx' = idx + 1
    /\ mainPc' = "loop"
    /\ ResetRun
    /\ UNCHANGED <<lines, files, exec, agentFor, searchFor, files0, returned>>

\* generate_response raises: nothing catches it, pipeline() and main() unwind
BackendError(agent) ==
    /\ mainPc = "await" /\ agent \in inflight
    /\ inflight' = inflight \ {agent}
    /\ failedAt' = stage
    /\ stage' = "ABORTED"
    /\ mainPc' = "crashed"
    /\ UNCHANGED <<lines, files, exec, idx, localVars, retryVars, fetchVars,
                   trace, agentCalls, agentFor, searchFor, files0, returned>>

\* (1) extracted = question_extraction_agent.inference(question)
BeginExtractQuestion ==
    /\ stage = "START"
    /\ Inference("question_extraction_agent", question, "EXTRACT_QUESTION")
    /\ UNCHANGED <<mainVars, localVars, retryVars, fetchVars,
                   searchFor, files0, returned, failedAt>>

EndExtractQuestion ==
    /\ stage = "EXTRACT_QUESTION" /\ "question_extraction_agent" \in inflight
    /\ \E e \in ExtractedSet : extracted' = e
    /\ inflight' = inflight \ {"question_extraction_agent"}
    /\ UNCHANGED <<mainVars, stage, question, keywords, context, prompt, answer,
                   retryVars, fetchVars, trace, agentCalls, histVars>>

\* (2) keywords = keyword_extraction_agent.inference(extracted)
BeginExtractKeywords ==
    /\ stage = "EXTRACT_QUESTION" /\ inflight = {}
    /\ Inference("keyword_extraction_agent", extracted, "EXTRACT_KEYWORDS")
    /\ UNCHANGED <<mainVars, localVars, retryVars, fetchVars,
                   searchFor, files0, returned, failedAt>>

EndExtractKeywords ==
    /\ stage = "EXTRACT_KEYWORDS" /\ "keyword_extraction_agent" \in inflight
    /\ \E k \in KeywordSet : keywords' = k
    /\ inflight' = inflight \ {"keyword_extraction_agent"}
    /\ UNCHANGED <<mainVars, stage, question, extracted, context, prompt, answer,
                   retryVars, fetchVars, trace, agentCalls, histVars>>

\* ------------------------------------------------ (3) search or not
\* mutant: the length test off by one (>= instead of >)
should_use_search_ge(q) ==
    \/ Len(q) >= LengthThreshold
    \/ \E k \in 1..Len(Triggers) : Contains(q, Triggers[k])

\* len(question) > 15 or any(kw in question for kw in [...])
should_use_search(q) ==
    \/ Len(q) > LengthThreshold
    \/ \E k \in 1..Len(Triggers) : Contains(q, Triggers[k])

\* context = "No search needed, answer based on common sense."
DecideSearch ==
    /\ stage = "EXTRACT_KEYWORDS" /\ inflight = {}
    /\ context' = NoSearchContext
    /\ stage' = "DECIDE_SEARCH"
    /\ trace' = Append(trace, "DECIDE_SEARCH")
    /\ UNCHANGED <<mainVars, inflight, question, extracted, keywords, prompt, answer,
                   retryVars, fetchVars, agentCalls, histVars>>

\* if should_use_search(extracted): for attempt in range(3):
EnterSearch ==
    /\ stage = "DECIDE_SEARCH"
    /\ should_use_search(extracted)
    /\ stage' = "SEARCH_WITH_RETRY"
    /\ trace' = Append(trace, "SEARCH_WITH_RETRY")
    /\ attempt' = 0
    /\ spc' = "try"
    /\ UNCHANGED <<mainVars, inflight, localVars, nSearch, sleeps, outcomes, gathered,
                   fetchVars, agentCalls, histVars>>

\* the if is not taken: context keeps its default
SkipSearch ==
    /\ stage = "DECIDE_SEARCH"
    /\ ~should_use_search(extracted)
    /\ stage' = "SKIP_SEARCH"
    /\ trace' = Append(trace, "SKIP_SEARCH")
    /\ UNCHANGED <<mainVars, inflight, localVars, retryVars, fetchVars,
                   agentCalls, histVars>>

\* ---------------------------------------------------- the retry loop
\* quoted = f'"{query.strip()}"' ; quoted[:100]
Quoted(q) == Prefix("\"" \o Strip(q) \o "\"", QueryCap)

\* mutant: a linear backoff, 20 * attempt
BackoffLinear(a, j) == JitterSteps * (BackoffBase * a) + j

\* wait = 20 ** attempt + random.random(), in ticks
Backoff(a, j) == JitterSteps * Pow(BackoffBase, a) + j

\* search() is left: its locals and its tasks are gone
SearchFrameGone ==
    /\ query' = "" /\ urls' = 0
    /\ fpc' = NoFetch /\ fres' = NoFetch /\ fev' = NoFetch

\* try: context = await search(extracted): search() is entered
SearchInvoke ==
    /\ stage = "SEARCH_WITH_RETRY" /\ spc = "try"
    /\ spc' = "call"
    /\ nSearch' = nSearch + 1
    /\ searchFor' = searchFor \cup {idx}
    /\ query' = Quoted(extracted)
    /\ urls' = 0
    /\ fpc' = NoFetch /\ fres' = NoFetch /\ fev' = NoFetch
    /\ UNCHANGED <<mainVars, stage, inflight, localVars, attempt, sleeps, outcomes, gathered,
                   trace, agentCalls, agentFor, files0, returned, failedAt>>

\* mutant: no suspension after the last attempt
CatchAndSleepUnlessLast ==
    /\ outcomes' = Append(outcomes, "raised")
    /\ IF attempt + 1 < MaxAttempts
       THEN \E j \in 0..(JitterSteps - 1) : sleeps' = Append(sleeps, Backoff(attempt, j))
       ELSE sleeps' = sleeps
    /\ spc' = "sleep"
    /\ UNCHANGED <<attempt, nSearch, gathered>>

\* except Exception as e: wait = ...; await asyncio.sleep(wait)
CatchAndSleep ==
    /\ outcomes' = Append(outcomes, "raised")
    /\ \E j \in 0..(JitterSteps - 1) : sleeps' = Append(sleeps, Backoff(attempt, j))
    /\ spc' = "sleep"
    /\ UNCHANGED <<attempt, nSearch, gathered>>

\* list(_search(...)) raises inside search(): rate limit, DNS, backend exception
SearchRaises ==
    /\ stage = "SEARCH_WITH_RETRY" /\ spc = "call"
    /\ CatchAndSleep
    /\ SearchFrameGone
    /\ UNCHANGED <<mainVars, stage, inflight, localVars, trace, agentCalls, histVars>>

\* urls = list(_search(...)); get_htmls creates one _fetch per URL and gathers them
SearchBackendReturns ==
    /\ stage = "SEARCH_WITH_RETRY" /\ spc = "call"
    /\ \E n \in 0..MaxUrls :
        /\ urls' = n
        /\ fpc' = [u \in 1..n |-> "head"]
        /\ fres' = [u \in 1..n |-> None]
        /\ fev' = [u \in 1..n |-> "none"]
    /\ spc' = "fetch"
    /\ UNCHANGED <<mainVars, stage, inflight, localVars, attempt, nSearch, sleeps,
                   outcomes, gathered, query, trace, agentCalls, histVars>>

\* mutant: a while loop that tries again with the same attempt number
RetryNextSameAttempt ==
    /\ stage = "SEARCH_WITH_RETRY" /\ spc = "sleep"
    /\ attempt + 1 < MaxAttempts
    /\ spc' = "try"
    /\ UNCHANGED <<mainVars, stage, inflight, localVars, attempt, nSearch, sleeps, outcomes,
                   gathered, fetchVars, trace, agentCalls, histVars>>

\* the sleep is over and range(3) has another value
RetryNext ==
    /\ stage = "SEARCH_WITH_RETRY" /\ spc = "sleep"
    /\ attempt + 1 < MaxAttempts
    /\ attempt' = attempt + 1
    /\ spc' = "try"
    /\ UNCHANGED <<mainVars, stage, inflight, localVars, nSearch, sleeps, outcomes, gathered,
                   fetchVars, trace, agentCalls, histVars>>

\* mutant: the for has no else clause, context keeps its default
ExhaustedNoElse ==
    /\ stage = "SEARCH_WITH_RETRY" /\ spc = "sleep"
    /\ attempt + 1 >= MaxAttempts
    /\ spc' = "exit"
    /\ UNCHANGED <<mainVars, stage, inflight, localVars, attempt, nSearch, sleeps,
                   outcomes, gathered, fetchVars, trace, agentCalls, histVars>>

\* the sleep is over and range(3) is exhausted: the for's else clause
Exhausted ==
    /\ stage = "SEARCH_WITH_RETRY" /\ spc = "sleep"
    /\ attempt + 1 >= MaxAttempts
    /\ context' = FallbackContext
    /\ spc' = "exit"
    /\ UNCHANGED <<mainVars, stage, inflight, question, extracted, keywords, prompt,
                   answer, attempt, nSearch, sleeps, outcomes, gathered, fetchVars,
                   trace, agentCalls, histVars>>

\* ----------------------------------------------- _fetch and get_htmls
ContentTypes == {"text/html; charset=utf-8", "application/pdf", ""}

\* _fetch returns v for URL u; ev is what the network did
FetchDone(u, v, ev) ==
    /\ fpc' = [fpc EXCEPT ![u] = "done"]
    /\ fres' = [fres EXCEPT ![u] = v]
    /\ fev' = [fev EXCEPT ![u] = ev]
    /\ UNCHANGED <<retryVars, context>>

\* mutant: _fetch has no try/except, the exception leaves gather and search()
FetchExceptPropagates(u, ev) ==
    /\ fpc' = [fpc EXCEPT ![u] = "done"]
    /\ fres' = [fres EXCEPT ![u] = None]
    /\ fev' = [fev EXCEPT ![u] = ev]
    /\ CatchAndSleep
    /\ UNCHANGED context

\* except: return None
FetchExcept(u, ev) == FetchDone(u, None, ev)

\* mutant: the content type of the HEAD response is not tested
HeadRespondsUnchecked(u) ==
    /\ stage = "SEARCH_WITH_RETRY" /\ spc = "fetch"
    /\ u \in 1..urls /\ fpc[u] = "head"
    /\ \E ct \in ContentTypes :
        /\ fpc' = [fpc EXCEPT ![u] = "get"]
        /\ fev' = [fev EXCEPT ![u] =
                      IF Contains(ct, "text/html") THEN "head_html" ELSE "head_other"]
        /\ UNCHANGED <<fres, retryVars, context>>
    /\ UNCHANGED <<mainVars, stage, inflight, question, extracted, keywords, prompt,
                   answer, query, urls, trace, agentCalls, histVars>>

\* head = await wait_for(session.head(url)); if 'text/html' not in Content-Type: return None
HeadResponds(u) ==
    /\ stage = "SEARCH_WITH_RETRY" /\ spc = "fetch"
    /\ u \in 1..urls /\ fpc[u] = "head"
    /\ \E ct \in ContentTypes :
        IF Contains(ct, "text/html")
        THEN /\ fpc' = [fpc EXCEPT ![u] = "get"]
             /\ fev' = [fev EXCEPT ![u] = "head_html"]
             /\ UNCHANGED <<fres, retryVars, context>>
        ELSE FetchDone(u, None, "head_other")
    /\ UNCHANGED <<mainVars, stage, inflight, question, extracted, keywords, prompt,
                   answer, query, urls, trace, agentCalls, histVars>>

\* session.head raises, or wait_for times out after 10 s
HeadFails(u) ==
    /\ stage = "SEARCH_WITH_RETRY" /\ spc = "fetch"
    /\ u \in 1..urls /\ fpc[u] = "head"
    /\ FetchExcept(u, "head_error")
    /\ UNCHANGED <<mainVars, stage, inflight, question, extracted, keywords, prompt,
                   answer, query, urls, trace, agentCalls, histVars>>

\* r = await wait_for(session.get(url)); return r.text
GetResponds(u) ==
    /\ stage = "SEARCH_WITH_RETRY" /\ spc = "fetch"
    /\ u \in 1..urls /\ fpc[u] = "get"
    /\ \E p \in PageIds : FetchDone(u, p, "get_ok")
    /\ UNCHANGED <<mainVars, stage, inflight, question, extracted, keywords, prompt,
                   answer, query, urls, trace, agentCalls, histVars>>

\* session.get raises, or wait_for times out after 10 s
GetFails(u) ==
    /\ stage = "SEARCH_WITH_RETRY" /\ spc = "fetch"
    /\ u \in 1..urls /\ fpc[u] = "get"
    /\ FetchExcept(u, "get_error")
    /\ UNCHANGED <<mainVars, stage, inflight, question, extracted, keywords, prompt,
                   answer, query, urls, trace, agentCalls, histVars>>

\* ------------------------------------------------- search(): the text
\* [''.join(t.split()) for t in texts], per page
CleanText == [p \in PageIds |-> RemoveWhitespace(Pages[p].text)]

\* pages = [p for p in pages if p]
Truthy(v) == v # None /\ Pages[v].body # ""

\* mutant: the joined text is not truncated
SearchResultUncapped(results) ==
    LET pages == SelectSeq(results, Truthy)
        IsUtf8(p) == Pages[p].encoding = "utf-8"
        kept == SelectSeq(pages, IsUtf8)
        clean == [k \in 1..Len(kept) |-> CleanText[kept[k]]]
    IN  Join("\n\n", clean)

\* mutant: a placeholder text when no page is kept
SearchResultPlaceholder(results) ==
    LET pages == SelectSeq(results, Truthy)
        IsUtf8(p) == Pages[p].encoding = "utf-8"
        kept == SelectSeq(pages, IsUtf8)
        clean == [k \in 1..Len(kept) |-> CleanText[kept[k]]]
    IN  IF Len(kept) = 0 THEN "No results found."
        ELSE Prefix(Join("\n\n", clean), ContextCap)

\* "\n\n".join(clean)[:5000] over the gathered results, in URL order
SearchResult(results) ==
    LET pages == SelectSeq(results, Truthy)
        IsUtf8(p) == Pages[p].encoding = "utf-8"
        kept == SelectSeq(pages, IsUtf8)
        clean == [k \in 1..Len(kept) |-> CleanText[kept[k]]]
    IN  Prefix(Join("\n\n", clean), ContextCap)

Gathered == [u \in 1..urls |-> fres[u]]

AllFetched == \A u \in 1..urls : fpc[u] = "done"

\* of the call that returns: URLs, results that are not None, bodies that are
\* not empty, texts detected as UTF-8
GatherSummary ==
    [urls  |-> urls,
     pages |-> Cardinality({u \in 1..urls : fres[u] # None}),
     texts |-> Cardinality({u \in 1..urls : Truthy(fres[u])}),
     kept  |-> Cardinality({u \in 1..urls :
                   Truthy(fres[u]) /\ Pages[fres[u]].encoding = "utf-8"})]

\* mutant: the break is missing, the loop goes on after a success
GatherReturnsNoBreak ==
    /\ stage = "SEARCH_WITH_RETRY" /\ spc = "fetch"
    /\ AllFetched
    /\ outcomes' = Append(outcomes, "returned")
    /\ IF attempt + 1 < MaxAttempts
       THEN /\ context' = SearchResult(Gathered)
            /\ attempt' = attempt + 1
            /\ spc' = "try"
       ELSE /\ context' = FallbackContext
            /\ spc' = "exit"
            /\ UNCHANGED attempt
    /\ gathered' = GatherSummary
    /\ SearchFrameGone
    /\ UNCHANGED <<mainVars, stage, inflight, question, extracted, keywords, prompt,
                   answer, nSearch, sleeps, trace, agentCalls, histVars>>

\* mutant: search() raises when no URL gave content
GatherRaisesOnEmpty ==
    /\ stage = "SEARCH_WITH_RETRY" /\ spc = "fetch"
    /\ AllFetched
    /\ IF \A u \in 1..urls : fres[u] = None
       THEN /\ CatchAndSleep
            /\ UNCHANGED context
       ELSE /\ context' = SearchResult(Gathered)
            /\ outcomes' = Append(outcomes, "returned")
            /\ spc' = "exit"
            /\ gathered' = GatherSummary
            /\ UNCHANGED <<attempt, nSearch, sleeps>>
    /\ SearchFrameGone
    /\ UNCHANGED <<mainVars, stage, inflight, question, extracted, keywords, prompt,
                   answer, trace, agentCalls, histVars>>

\* gather has every result: search() returns, context is assigned, break
GatherReturns ==
    /\ stage = "SEARCH_WITH_RETRY" /\ spc = "fetch"
    /\ AllFetched
    /\ context' = SearchResult(Gathered)
    /\ outcomes' = Append(outcomes, "returned")
    /\ spc' = "exit"
    /\ gathered' = GatherSummary
    /\ SearchFrameGone
    /\ UNCHANGED <<mainVars, stage, inflight, question, extracted, keywords, prompt,
                   answer, attempt, nSearch, sleeps, trace, agentCalls, histVars>>

\* -------------------------------------------------------- (4) answer
\* prompt = f"Background information:\n{context}\n\nPlease answer: {extracted}"
\* mutant: the keywords are appended to the prompt of the answer stage
PromptWithKeywords(c, e) ==
    "Background information:\n" \o c \o "\n\nPlease answer: " \o e
        \o "\nKeywords: " \o keywords

Prompt(c, e) == "Background information:\n" \o c \o "\n\nPlease answer: " \o e

\* mutant: the search is not awaited, the answer stage starts during it
BeginGenerateAnswerEarly ==
    /\ \/ stage = "SKIP_SEARCH"
       \/ stage = "SEARCH_WITH_RETRY"
    /\ prompt' = Prompt(context, extracted)
    /\ Inference("qa_agent", prompt', "GENERATE_ANSWER")
    /\ UNCHANGED <<mainVars, question, extracted, keywords, context, answer,
                   retryVars, fetchVars, searchFor, files0, returned, failedAt>>

\* answer = qa_agent.inference(prompt)
BeginGenerateAnswer ==
    /\ \/ stage = "SKIP_SEARCH"
       \/ stage = "SEARCH_WITH_RETRY" /\ spc = "exit"
    /\ prompt' = Prompt(context, extracted)
    /\ Inference("qa_agent", prompt', "GENERATE_ANSWER")
    /\ UNCHANGED <<mainVars, question, extracted, keywords, context, answer,
                   retryVars, fetchVars, searchFor, files0, returned, failedAt>>

EndGenerateAnswer ==
    /\ stage = "GENERATE_ANSWER" /\ "qa_agent" \in inflight
    /\ \E a \in AnswerSet : answer' = a
    /\ inflight' = inflight \ {"qa_agent"}
    /\ UNCHANGED <<mainVars, stage, question, extracted, keywords, context, prompt,
                   retryVars, fetchVars, trace, agentCalls, histVars>>

\* return answer
Return ==
    /\ stage = "GENERATE_ANSWER" /\ inflight = {}
    /\ stage' = "DONE"
    /\ trace' = Append(trace, "DONE")
    /\ returned' = [returned EXCEPT ![idx] =
                        Append(@, [question |-> question, answer |-> answer])]
    /\ UNCHANGED <<mainVars, inflight, localVars, retryVars, fetchVars,
                   agentCalls, agentFor, searchFor, files0, failedAt>>

Next ==
    \/ LoopSkip
    \/ CallPipeline
    \/ WriteArtifact
    \/ LoopExit
    \/ Restart
    \/ BeginExtractQuestion
    \/ EndExtractQuestion
    \/ BeginExtractKeywords
    \/ EndExtractKeywords
    \/ \E a \in Agents : BackendError(a)
    \/ DecideSearch
    \/ EnterSearch
    \/ SkipSearch
    \/ SearchInvoke
    \/ SearchRaises
    \/ SearchBackendReturns
    \/ RetryNext
    \/ Exhausted
    \/ \E u \in 1..MaxUrls : HeadResponds(u)
    \/ \E u \in 1..MaxUrls : HeadFails(u)
    \/ \E u \in 1..MaxUrls : GetResponds(u)
    \/ \E u \in 1..MaxUrls : GetFails(u)
    \/ GatherReturns
    \/ BeginGenerateAnswer
    \/ EndGenerateAnswer
    \/ Return

Spec == Init /\ [][Next]_vars

\* one more step of the _fetch task of URL u
FetchStep(u) == HeadResponds(u) \/ HeadFails(u) \/ GetResponds(u) \/ GetFails(u)

\* a step of pipeline() in which an awaited call returns or raises where the
\* code catches it, or the coroutine goes on by itself
PipelineStep ==
    \/ BeginExtractQuestion
    \/ EndExtractQuestion
    \/ BeginExtractKeywords
    \/ EndExtractKeywords
    \/ DecideSearch
    \/ EnterSearch
    \/ SkipSearch
    \/ SearchInvoke
    \/ SearchRaises
    \/ SearchBackendReturns
    \/ RetryNext
    \/ Exhausted
    \/ \E u \in 1..MaxUrls : FetchStep(u)
    \/ GatherReturns
    \/ BeginGenerateAnswer
    \/ EndGenerateAnswer
    \/ Return

\* the event loop runs the coroutine whenever it can go on: every agent call
\* returns or raises, every search call returns or raises, every sleep ends
LiveSpec == Init /\ [][Next]_vars /\ WF_vars(PipelineStep)

\* ============================================================ claims
\* every search() call of this run raised, and the budget is used up
AllAttemptsFailed ==
    /\ Len(outcomes) = MaxAttempts
    /\ \A k \in 1..Len(outcomes) : outcomes[k] = "raised"

\* the run got past the decision of stage (3)
Decided == \E k \in 1..Len(trace) : trace[k] = "DECIDE_SEARCH"

\* C1: when search() raises on all 3 attempts the retry loop does not raise:
\* the run is not aborted by the search stage, once the loop is left the
\* context is the fallback string after exactly 3 calls, the answer stage can
\* start, and the prompt of the answer stage embeds the fallback string.
C1_FallbackAfterExhaustion ==
    AllAttemptsFailed =>
        /\ stage = "ABORTED" => failedAt = "GENERATE_ANSWER"
        /\ spc \in {"sleep", "exit"}
        /\ spc = "exit" => context = FallbackContext /\ nSearch = MaxAttempts
        /\ (stage = "SEARCH_WITH_RETRY" /\ spc = "exit") => ENABLED BeginGenerateAnswer
        /\ stage \in {"GENERATE_ANSWER", "DONE"} =>
               prompt = Prompt(FallbackContext, extracted)

C1_Witness ==
    /\ stage = "DONE" /\ AllAttemptsFailed
    /\ context = FallbackContext /\ answer \in AnswerSet

\* k caught failures, then a call that returned
FailedThenReturned(k) ==
    /\ Len(outcomes) = k + 1
    /\ \A i \in 1..k : outcomes[i] = "raised"
    /\ outcomes[k + 1] = "returned"

\* the step in which a search() call returns to the retry loop
SearchReturnStep ==
    /\ Len(outcomes') = Len(outcomes) + 1
    /\ outcomes'[Len(outcomes')] = "returned"

\* C2: when search() raises exactly k times (0 < k < 3) and then returns, the
\* context is what that last call returned (neither the default nor the
\* fallback), search() was called k+1 times, and there were k sleeps, the
\* a-th of 20^a seconds plus a jitter in [0, 1): the total is their sum.
C2_RetryThenSuccess ==
    /\ [](\A k \in 1..(MaxAttempts - 1) :
            FailedThenReturned(k) =>
                /\ nSearch = k + 1
                /\ Len(sleeps) = k
                /\ \A a \in 0..(k - 1) :
                     (sleeps[a + 1] - JitterSteps * Pow(BackoffBase, a))
                         \in 0..(JitterSteps - 1)
                /\ spc = "exit"
                /\ context \notin {NoSearchContext, FallbackContext}
                /\ stage \in {"GENERATE_ANSWER", "DONE"} =>
                       prompt = Prompt(context, extracted))
    /\ [][ /\ SearchReturnStep => context' = SearchResult(Gathered)
           /\ (\E k \in 1..(MaxAttempts - 1) : FailedThenReturned(k)) =>
                  (stage' # "IDLE" => context' = context /\ sleeps' = sleeps) ]_vars

C2_Witness ==
    /\ stage = "DONE"
    /\ outcomes = <<"raised", "raised", "returned">>
    /\ Len(sleeps) = 2
    /\ context # ""

\* C3: when the first search() call of a run returns, search() is called
\* exactly once in that run and the run never sleeps.
C3_OneCallOnSuccess ==
    (Len(outcomes) >= 1 /\ outcomes[1] = "returned") =>
        /\ should_use_search(extracted)
        /\ nSearch = 1
        /\ Len(outcomes) = 1
        /\ sleeps = <<>>
        /\ spc = "exit"

C3_Witness ==
    /\ stage = "DONE"
    /\ should_use_search(extracted)
    /\ outcomes = <<"returned">>
    /\ nSearch = 1

\* C4: when the extracted question has at most 15 characters and contains none
\* of "what is", "who", "which", should_use_search is false, search() and the
\* retry loop are never entered, and the context of the answer stage is the
\* "No search needed" string.
C4_NoSearchForShortQuestion ==
    ( /\ Decided
      /\ Len(extracted) <= 15
      /\ \A kw \in {"what is", "who", "which"} : ~Contains(extracted, kw) )
    =>
        /\ ~should_use_search(extracted)
        /\ stage # "SEARCH_WITH_RETRY"
        /\ nSearch = 0 /\ outcomes = <<>> /\ spc = "idle" /\ urls = 0
        /\ idx \notin searchFor
        /\ context = NoSearchContext
        /\ stage \in {"GENERATE_ANSWER", "DONE"} =>
               prompt = Prompt(NoSearchContext, extracted)

C4_Witness ==
    /\ stage = "DONE"
    /\ Len(extracted) = 15
    /\ context = NoSearchContext
    /\ nSearch = 0

\* answer.replace('\n', ' ') of every answer an agent gives
Flattened == [a \in AnswerSet |-> ReplaceNewlines(a)]

\* C5: every artifact on disk is the flattened answer of the one pipeline run
\* that returned for its index; no index has more than one returned run; and
\* while the run of an index is in progress (also when it has returned but is
\* not yet written) or has failed, that index has no artifact.
C5_ArtifactOnlyAfterReturn ==
    /\ \A i \in 1..NumQuestions :
        /\ Len(returned[i]) <= 1
        /\ files[i] # NoFile =>
              /\ Len(returned[i]) = 1
              /\ files[i] = Flattened[returned[i][1].answer]
    /\ mainPc \in {"await", "crashed"} => files[idx] = NoFile

C5_Witness ==
    /\ NumQuestions = 2 /\ idx = 2
    /\ mainPc = "crashed"
    /\ files[1] # NoFile /\ Len(returned[1]) = 1
    /\ files[2] = NoFile

\* C6: an index whose artifact existed when an execution started gets no agent
\* call and no search call in that execution, and its artifact is unchanged.
C6_Idempotence ==
    \A i \in 1..NumQuestions :
        files0[i] # NoFile =>
            /\ i \notin agentFor
            /\ i \notin searchFor
            /\ files[i] = files0[i]
            /\ (idx = i => stage = "IDLE")

C6_Witness ==
    /\ exec = 2 /\ mainPc = "finished"
    /\ NumQuestions = 2
    /\ \A i \in 1..NumQuestions : files0[i] # NoFile
    /\ agentFor = {} /\ searchFor = {}

\* the agents of this run, in call order
CalledAgents == [k \in 1..Len(agentCalls) |-> agentCalls[k].agent]

\* C7 as claimed: an agent's failure is fatal only for the run of the current
\* question: that question gets no artifact and the batch runner goes on.
C7_FatalOnlyForCurrentRun ==
    failedAt # "none" =>
        /\ files[idx] = NoFile
        /\ mainPc # "crashed"

\* C7 as amended: an agent's failure is neither caught nor retried: it ends
\* the run and main() with it.  The failing agent was called once, the search
\* loop did not run again, the question and every later question get no
\* artifact in this execution, earlier artifacts stay, and every file on disk
\* is a flattened answer of the model (there is no error answer).
C7_FatalForExecution ==
    /\ failedAt # "none" =>
        /\ mainPc = "crashed" /\ stage = "ABORTED" /\ inflight = {}
        /\ failedAt \in {"EXTRACT_QUESTION", "EXTRACT_KEYWORDS", "GENERATE_ANSWER"}
        /\ CalledAgents \in
             { <<"question_extraction_agent">>,
               <<"question_extraction_agent", "keyword_extraction_agent">>,
               <<"question_extraction_agent", "keyword_extraction_agent", "qa_agent">> }
        /\ failedAt = trace[Len(trace)]
        /\ Len(outcomes) = nSearch /\ spc \in {"idle", "exit"}
        /\ files[idx] = NoFile
        /\ \A i \in (idx + 1)..NumQuestions :
              files[i] = files0[i] /\ i \notin agentFor
        /\ ~ENABLED (LoopSkip \/ CallPipeline \/ WriteArtifact \/ LoopExit)
    /\ \A i \in 1..NumQuestions :
          files[i] # NoFile => files[i] \in {Flattened[a] : a \in AnswerSet}

C7_Witness ==
    /\ mainPc = "crashed" /\ failedAt = "GENERATE_ANSWER"
    /\ NumQuestions = 2 /\ idx = 1
    /\ nSearch = MaxAttempts
    /\ files[1] = NoFile /\ files[2] = NoFile

\* the two orders of the stages
StageOrder(mid) ==
    <<"START", "EXTRACT_QUESTION", "EXTRACT_KEYWORDS", "DECIDE_SEARCH", mid,
      "GENERATE_ANSWER", "DONE">>

IsPrefix(a, b) == Len(a) <= Len(b) /\ SubSeq(b, 1, Len(a)) = a

\* C8: the stages entered by a run are a prefix of START, EXTRACT_QUESTION,
\* EXTRACT_KEYWORDS, DECIDE_SEARCH, one of SEARCH_WITH_RETRY and SKIP_SEARCH,
\* GENERATE_ANSWER, DONE; a stage is entered only when the one before has
\* completed (no inference in flight, no search call, fetch or sleep
\* pending); and at most one agent is inside inference, never during a search.
C8_StageOrder ==
    /\ [](/\ \/ IsPrefix(trace, StageOrder("SEARCH_WITH_RETRY"))
             \/ IsPrefix(trace, StageOrder("SKIP_SEARCH"))
          /\ stage \notin {"IDLE", "ABORTED"} => stage = trace[Len(trace)]
          /\ Cardinality(inflight) <= 1
          /\ inflight # {} => spc \in {"idle", "exit"})
    /\ [][ (stage' # stage /\ stage' \notin {"IDLE", "ABORTED"}) =>
              /\ inflight = {}
              /\ spc \in {"idle", "exit"}
              /\ \A u \in DOMAIN fpc : fpc[u] = "done" ]_vars

C8_Witness ==
    /\ stage = "DONE"
    /\ trace = StageOrder("SEARCH_WITH_RETRY")
    /\ Len(sleeps) = 2


\* C9: while get_htmls gathers, every unfinished _fetch can take its next step
\* whatever the others did; gather is left only when every _fetch is done,
\* and only by returning; an exception or timeout of a HEAD or GET makes that
\* URL's result None, in a step that changes no other URL's task and leaves the
\* retry loop where it is; and a finished URL has a page exactly when its own
\* HEAD was HTML and its own GET answered.
C9_FetchIsolation ==
    /\ [](spc = "fetch" =>
            /\ DOMAIN fpc = 1..urls
            /\ \A u \in 1..urls :
                /\ fpc[u] # "done" => ENABLED FetchStep(u)
                /\ fpc[u] = "done" =>
                      /\ fres[u] # None <=> fev[u] = "get_ok"
                      /\ fev[u] \in {"head_other", "head_error", "get_error", "get_ok"})
    /\ [][ /\ (spc = "fetch" /\ spc' # "fetch") =>
                 /\ AllFetched
                 /\ spc' = "exit" /\ sleeps' = sleeps
                 /\ outcomes' = Append(outcomes, "returned")
           /\ \A u \in DOMAIN fev :
                 (spc' # "exit" /\ u \in DOMAIN fev' /\ fev'[u] # fev[u]) =>
                    /\ spc' = "fetch" /\ outcomes' = outcomes /\ sleeps' = sleeps
                    /\ fev'[u] \in {"head_error", "get_error"} =>
                          fpc'[u] = "done" /\ fres'[u] = None
                    /\ \A v \in DOMAIN fev \ {u} :
                          fpc'[v] = fpc[v] /\ fres'[v] = fres[v] /\ fev'[v] = fev[v]
         ]_vars

C9_Witness ==
    /\ spc = "fetch" /\ urls = 2 /\ AllFetched
    /\ fev[1] = "get_error" /\ fres[1] = None
    /\ fev[2] = "get_ok" /\ fres[2] = "short"

\* every URL of this search() call ended without content
AllFetchesFailed ==
    /\ spc = "fetch" /\ urls > 0 /\ AllFetched
    /\ \A u \in 1..urls : fres[u] = None

\* C10 as claimed: a search() call whose fetches all failed is an error that
\* the retry loop answers with a backoff sleep and another attempt.
C10_AllFailedIsRetried ==
    [][ (AllFetchesFailed /\ spc' # "fetch") =>
            /\ spc' = "sleep"
            /\ outcomes' = Append(outcomes, "raised") ]_vars

\* C10 as amended: a search() call whose fetches all failed returns the empty
\* string without raising: the retry loop ends with that call, without a
\* sleep or another attempt, and the context is the empty string, not the
\* fallback string.  Only an exception of the search backend is retried.
C10_AllFailedReturnsEmpty ==
    [][ /\ (AllFetchesFailed /\ spc' # "fetch") =>
            /\ spc' = "exit"
            /\ context' = ""
            /\ outcomes' = Append(outcomes, "returned")
            /\ sleeps' = sleeps /\ nSearch' = nSearch /\ attempt' = attempt
        /\ (spc' = "sleep" /\ spc # "sleep") => spc = "call" ]_vars

C10_Witness ==
    /\ stage = "DONE"
    /\ outcomes = <<"returned">>
    /\ gathered.urls = 2 /\ gathered.pages = 0
    /\ context = ""
    /\ prompt = Prompt("", extracted)

\* every result of this search() call is dropped: None, an empty body, or a
\* text not detected as UTF-8
NothingKept ==
    /\ spc = "fetch" /\ AllFetched
    /\ \A u \in 1..urls :
          \/ fres[u] = None
          \/ Pages[fres[u]].body = ""
          \/ Pages[fres[u]].encoding # "utf-8"

\* the last search() call of this run returned
LastCallReturned ==
    Len(outcomes) >= 1 /\ outcomes[Len(outcomes)] = "returned"

\* C11: a search() call none of whose results is kept (no URL, no URL with
\* HTML, or every text filtered as not UTF-8) returns the empty string without
\* raising: the context is "", the loop is left without a sleep, the answer
\* stage can start, and its prompt embeds the empty context.
C11_EmptyResultProceeds ==
    /\ [][ (NothingKept /\ spc' # "fetch") =>
              /\ context' = ""
              /\ spc' = "exit"
              /\ outcomes' = Append(outcomes, "returned")
              /\ sleeps' = sleeps ]_vars
    /\ []((LastCallReturned /\ gathered.kept = 0) =>
              /\ context = ""
              /\ stage # "ABORTED" => spc = "exit"
              /\ stage = "SEARCH_WITH_RETRY" => ENABLED BeginGenerateAnswer
              /\ stage \in {"GENERATE_ANSWER", "DONE"} =>
                    prompt = "Background information:\n\n\nPlease answer: " \o extracted)

C11_Witness ==
    /\ stage = "DONE" /\ LastCallReturned
    /\ gathered.urls = 2 /\ gathered.texts = 2 /\ gathered.kept = 0
    /\ context = ""
    /\ answer \in AnswerSet

\* line.strip().split(',')[0] of every line of every input file
PreComma ==
    [f \in InputFiles |-> [i \in 1..Len(f) |-> BeforeComma(Strip(f[i]))]]

\* no question handed to a run has a comma left in it
NoCommaLeft ==
    \A f \in InputFiles : \A i \in 1..Len(f) : ~Contains(PreComma[f][i], ",")

\* the run reached the answer stage (or failed in it)
PastSearchStage ==
    \/ stage \in {"GENERATE_ANSWER", "DONE"}
    \/ stage = "ABORTED" /\ failedAt = "GENERATE_ANSWER"

\* C12 as stated: a run whose pre-comma question is longer than 15 characters
\* invokes the search provider. The decision is taken on the extracted
\* question, which an agent returns, so a short extraction of a long question
\* skips the search.
C12_SearchForLongQuestion ==
    (PastSearchStage /\ Len(question) > LengthThreshold) => nSearch >= 1

\* C12: the run for a line works on the stripped text before the first comma
\* (for "What is the capital of France?,extra" on "What is the capital of
\* France?"), this text is what the first agent receives, and search is
\* attempted whenever the extracted question is longer than 15 characters.
C12_SearchForLongExtracted ==
    /\ NoCommaLeft
    /\ mainPc = "await" =>
          /\ question = PreComma[lines][idx]
          /\ lines[idx] = "What is the capital of France?,extra\n" =>
                question = "What is the capital of France?"
          /\ Len(agentCalls) >= 1 =>
                agentCalls[1] = [agent |-> "question_extraction_agent",
                                 message |-> question]
    /\ (PastSearchStage /\ Len(extracted) > 15) =>
          nSearch >= 1 /\ idx \in searchFor

C12_Witness ==
    /\ stage = "DONE"
    /\ lines[idx] = "What is the capital of France?,extra\n"
    /\ question = "What is the capital of France?"
    /\ Len(extracted) > 15
    /\ nSearch >= 1

\* C13: the keywords are written by one step that changes nothing else of the
\* run, and everything after that step is determined without them: the search
\* decision by the extracted question, every search query by the extracted
\* question, the prompt of the answer stage by the context and the extracted
\* question, and the value returned is the answer agent's reply to that prompt.
\* Two runs that agree on the question, the extracted question and the search
\* outcomes therefore agree on all of these, whatever the keywords are.
C13_KeywordsUnused ==
    /\ [][ keywords' # keywords /\ mainPc' = "await" =>
              /\ stage = "EXTRACT_KEYWORDS" /\ stage' = stage
              /\ UNCHANGED <<mainVars, question, extracted, context, prompt, answer,
                             retryVars, fetchVars, trace, agentCalls, histVars>> ]_vars
    /\ [](mainPc = "await" =>
            /\ Len(agentCalls) >= 2 =>
                  agentCalls[2] = [agent |-> "keyword_extraction_agent",
                                   message |-> extracted]
            /\ stage \in {"SEARCH_WITH_RETRY", "SKIP_SEARCH"} =>
                  ( stage = "SEARCH_WITH_RETRY" <=>
                       \/ Len(extracted) > 15
                       \/ \E kw \in {"what is", "who", "which"} : Contains(extracted, kw) )
            /\ spc \in {"call", "fetch"} =>
                  query = Prefix("\"" \o Strip(extracted) \o "\"", 100)
            /\ stage \in {"GENERATE_ANSWER", "DONE"} =>
                  /\ prompt = "Background information:\n" \o context
                                 \o "\n\nPlease answer: " \o extracted
                  /\ Len(agentCalls) = 3
                  /\ agentCalls[3] = [agent |-> "qa_agent", message |-> prompt]
            /\ stage = "DONE" =>
                  returned[idx][Len(returned[idx])] =
                      [question |-> question, answer |-> answer])

C13_Witness ==
    /\ stage = "DONE"
    /\ keywords = "capital Peru"
    /\ ~Contains(prompt, keywords)
    /\ outcomes = <<"raised", "returned">>
    /\ context # ""

\* C14: a step that writes an artifact writes only the artifact of the index
\* whose run has just returned, with the flattened answer of that run on the
\* text before the first comma of that input line; so every artifact written
\* for index i holds the answer of the run on line i, also in an execution
\* that skipped earlier indices.
C14_IndexCorrespondence ==
    /\ [][ files' # files =>
              /\ stage = "DONE" /\ idx \in 1..NumQuestions
              /\ question = PreComma[lines][idx]
              /\ files[idx] = NoFile
              /\ files' = [files EXCEPT ![idx] = Flattened[answer]]
              /\ returned[idx] = <<[question |-> question, answer |-> answer]>> ]_vars
    /\ [](\A i \in 1..NumQuestions :
            /\ \A k \in 1..Len(returned[i]) :
                  returned[i][k].question = PreComma[lines][i]
            /\ files[i] # NoFile =>
                  /\ Len(returned[i]) = 1
                  /\ files[i] = Flattened[returned[i][1].answer])

C14_Witness ==
    /\ exec = 2 /\ NumQuestions = 2
    /\ files0[1] # NoFile /\ files0[2] = NoFile
    /\ files[1] = files0[1]
    /\ files[2] # NoFile /\ files[2] # files[1]
    /\ returned[2][1].question = "hi"

\* C15: the string a search() call returns, and with it the context of the
\* run, is never longer than 5000 characters, whatever the number and sizes
\* of the pages kept and with the blank-line separators counted.
C15_ContextCapped ==
    /\ Len(context) <= 5000
    /\ (spc = "fetch" /\ AllFetched) => Len(SearchResult(Gathered)) <= 5000
    /\ stage \in {"GENERATE_ANSWER", "DONE"} =>
          Len(prompt) <= 5000 + Len(Prompt("", extracted))

C15_Witness ==
    /\ stage = "DONE" /\ LastCallReturned
    /\ gathered.kept = 2
    /\ Len(context) = 5000
    /\ 2 * Len(CleanText["long"]) + 2 > 5000

\* the GET of URL u has been issued (it is pending, has answered or has failed)
GetIssued(u) == fpc[u] = "get" \/ fev[u] \in {"get_ok", "get_error"}

\* C16: for each URL of a search() call the GET is issued only by the step in
\* which the HEAD answers with a content type that contains text/html; a URL
\* whose HEAD answered with another content type (or none), failed or timed
\* out is finished with None, and no GET is issued for it afterwards.
C16_GetOnlyAfterHtmlHead ==
    /\ [][ \A u \in 1..urls :
             /\ (u \in 1..urls' /\ ~GetIssued(u) /\ GetIssued(u)') =>
                   /\ fpc[u] = "head" /\ fev[u] = "none"
                   /\ fpc'[u] = "get" /\ fev'[u] = "head_html"
             /\ (fev[u] \in {"head_other", "head_error"} /\ spc' = "fetch") =>
                   /\ fpc'[u] = "done" /\ fev'[u] = fev[u] /\ fres'[u] = None ]_vars
    /\ [](\A u \in 1..urls :
             /\ fpc[u] = "head" => fev[u] = "none" /\ fres[u] = None
             /\ fpc[u] = "get" => fev[u] = "head_html" /\ fres[u] = None
             /\ fev[u] \in {"head_other", "head_error"} =>
                   fpc[u] = "done" /\ fres[u] = None
             /\ fres[u] # None => fev[u] = "get_ok")

C16_Witness ==
    /\ spc = "fetch" /\ urls = 2
    /\ fev[1] = "head_other" /\ fpc[1] = "done" /\ fres[1] = None
    /\ fev[2] = "get_ok" /\ fres[2] # None

\* C17: a run calls search() at most 3 times and its loop counter stays below
\* 3; a run that ends in DONE has an answer; and when every awaited call
\* returns or raises, a run that starts ends: in DONE, or by the error of an
\* agent call that did not return.
C17_RunTerminates ==
    /\ [](/\ nSearch <= 3 /\ attempt < 3
          /\ Len(outcomes) <= 3 /\ Len(sleeps) <= 3
          /\ nSearch \in {Len(outcomes), Len(outcomes) + 1}
          /\ stage = "DONE" => answer \in AnswerSet /\ failedAt = "none")
    /\ (stage = "START") ~> (stage = "DONE" \/ failedAt # "none")

C17_Witness ==
    /\ stage = "DONE" /\ failedAt = "none"
    /\ nSearch = 3 /\ attempt = 2
    /\ outcomes[3] = "returned"
    /\ gathered.kept >= 1
    /\ answer \in AnswerSet

\* C18: main() works on one index at a time, in input order: a run exists only
\* while main() awaits it, no run of this execution has touched a later index,
\* every earlier index has its artifact before the run of an index starts, the
\* index moves on by one and only past an index that has its artifact, and at
\* most one agent inference is in progress (none while pages are fetched).
C18_OneAtATime ==
    /\ [][ /\ (stage' = "START" /\ stage # "START") =>
                /\ stage = "IDLE" /\ mainPc = "loop" /\ idx' = idx
                /\ \A i \in 1..(idx - 1) : files[i] # NoFile
           /\ (idx' # idx /\ exec' = exec) =>
                /\ idx' = idx + 1
                /\ files'[idx] # NoFile
                /\ stage' = "IDLE" /\ inflight' = {} ]_vars
    /\ [](/\ Cardinality(inflight) <= 1
          /\ spc \in {"call", "fetch", "sleep"} => inflight = {}
          /\ stage # "IDLE" <=> mainPc \in {"await", "crashed"}
          /\ inflight # {} => mainPc = "await"
          /\ agentFor \subseteq 1..idx /\ searchFor \subseteq 1..idx
          /\ mainPc = "await" =>
                /\ idx \in 1..NumQuestions
                /\ \A i \in 1..(idx - 1) : files[i] # NoFile
                /\ \A i \in idx..NumQuestions : files[i] = NoFile)

C18_Witness ==
    /\ exec = 1 /\ idx = 2 /\ mainPc = "await"
    /\ inflight = {"qa_agent"}
    /\ files[1] # NoFile /\ files[2] = NoFile
    /\ agentFor = {1, 2}

\* the a-th suspension (a = 0, 1, 2) lasts 20^a seconds plus a jitter in [0, 1)
SleepOf(a) == sleeps[a + 1] - JitterSteps * Pow(20, a)

\* C19: every search() call that raises is followed by a suspension before
\* anything else happens, the one of the last attempt included: the number of
\* suspensions is the number of failed calls, the a-th lasts 20^a seconds plus
\* jitter, the fallback context is set only by the step that ends the third
\* suspension, and that step calls search() no more.
C19_SleepAfterEveryFailure ==
    /\ [][ /\ Len(outcomes') > Len(outcomes) /\ outcomes'[Len(outcomes')] = "raised" =>
                /\ spc' = "sleep"
                /\ Len(sleeps') = Len(sleeps) + 1
                /\ context' = context
           /\ (context' = FallbackContext /\ context # FallbackContext) =>
                /\ spc = "sleep" /\ spc' = "exit"
                /\ attempt = 2 /\ Len(sleeps) = 3
                /\ nSearch' = nSearch
           /\ (spc = "sleep" /\ spc' # "sleep" /\ stage' = stage) =>
                IF attempt = 2 THEN spc' = "exit" /\ context' = FallbackContext
                ELSE spc' = "try" /\ attempt' = attempt + 1 /\ context' = context ]_vars
    /\ [](/\ Len(sleeps) = Cardinality({k \in 1..Len(outcomes) : outcomes[k] = "raised"})
          /\ \A a \in 0..(Len(sleeps) - 1) : SleepOf(a) \in 0..(JitterSteps - 1)
          /\ spc = "sleep" => Len(sleeps) = attempt + 1 /\ context = NoSearchContext
          /\ (Len(outcomes) = 3 /\ outcomes[3] = "raised") =>
                /\ Len(sleeps) = 3
                /\ sleeps[1] < sleeps[2] /\ sleeps[2] < sleeps[3])

C19_Witness ==
    /\ stage = "SEARCH_WITH_RETRY" /\ spc = "sleep"
    /\ attempt = 2 /\ Len(sleeps) = 3
    /\ SleepOf(2) = JitterSteps - 1
    /\ context = NoSearchContext
    /\ ENABLED Exhausted /\ ~ENABLED RetryNext

====
